---- MODULE Spec2Model ----
(***************************************************************************)
(* A model of the extraction and normalization engine of the product-page  *)
(* extractor: extractor.py (selector application, heuristic inference,     *)
(* price normalization, LLM selector inference with model fallback) and    *)
(* the batch loop of app.py.                                               *)
(*                                                                         *)
(* Text is a sequence of one-character strings.  Python's None is the      *)
(* value None below when it stands where a text may stand, and NoSelector  *)
(* where a selector may stand; a dict is a function on its keys and {} is  *)
(* the empty function <<>>.                                                *)
(***************************************************************************)
EXTENDS Naturals, Sequences, FiniteSets

VARIABLES
    \* extract_from_html
    soup,           \* the parsed document an extraction works on
    mapping,        \* extract_from_html's mapping argument
    selected,       \* extract_from_html's local dict `selected`
    invoked,        \* the heuristics the extraction has called so far
    record,         \* the record extract_from_html returns (None before)
    pc,             \* the position inside extract_from_html
    \* llm_infer_selectors
    api_key,        \* its api_key argument
    sdk_installed,  \* whether `from google import genai` succeeds
    model_idx,      \* the position of the loop in models_to_try
    attempted,      \* the models generate_content was called with, in order
    responses,      \* what the backend answered to each of these calls
    errors,         \* the local dict `errors`
    llm_result,     \* the returned dict
    printed,        \* the lines printed
    llm_pc,         \* the position inside llm_infer_selectors
    \* the batch loop of app.py
    heap,           \* the dict objects the loop holds, by reference
    mapping_ref,    \* the object the loop's name `mapping` is bound to
    inferred,       \* the loop's local `inferred`
    html,           \* the document of the current input
    src,            \* its name or final URL
    effective_log,  \* the selector maps the extractions ran with (history)
    results,        \* the list `results`
    n_inputs,       \* len(inputs)
    done_inputs,    \* the inputs the loop has finished with
    flags,          \* use_live, use_llm_inference, GEMINI_API_KEY
    initial_input,  \* mapping_input as the user entered it (history)
    app_pc          \* the position inside the loop body

extractVars == <<soup, mapping, selected, invoked, record, pc>>
llmVars == <<api_key, sdk_installed, model_idx, attempted, responses, errors,
             llm_result, printed, llm_pc>>
appVars == <<heap, mapping_ref, inferred, html, src, effective_log, results, n_inputs, done_inputs,
             flags, initial_input, app_pc>>
vars == <<extractVars, llmVars, appVars>>

None == <<"None">>
NoSelector == "<None>"
Fields == <<"title", "price", "availability">>
FieldSet == {"title", "price", "availability"}

(***************************************************************************)
(* Characters and the two regular expressions.                             *)
(***************************************************************************)
Digits == {"0", "1", "2", "3", "4", "5", "6", "7", "8", "9"}
\* the class [\d{1,3},] : a digit, a brace or a comma
NumClass == Digits \cup {"{", "}", ","}
CurrencySymbols == {"$", "€", "£", "₹"}
Whitespace == {" ", "\t", "\n", "\r", "\f"}

\* the last index of the longest run of NumClass characters that starts at j
\* (j - 1 when there is none)
RECURSIVE RunEnd(_, _)
RunEnd(s, j) ==
    IF j <= Len(s) /\ s[j] \in NumClass THEN RunEnd(s, j + 1) ELSE j - 1

\* the last index of the longest run of digits that starts at j
RECURSIVE DigitsEnd(_, _)
DigitsEnd(s, j) ==
    IF j <= Len(s) /\ s[j] \in Digits THEN DigitsEnd(s, j + 1) ELSE j - 1

MaxOf(S) == CHOOSE x \in S : \A y \in S : y <= x

\* [\d{1,3},]*\d+(\.\d+)? anchored at j: the index of the last character
\* matched, 0 when the pattern does not match at j.  The greedy class run
\* backs off to its last digit; the fraction can follow only when that digit
\* ends the run.
NumberMatchEnd(s, j) ==
    LET e == RunEnd(s, j)
        ds == {p \in j..e : s[p] \in Digits}
    IN  IF ds = {} THEN 0
        ELSE LET p == MaxOf(ds)
             IN  IF p = e /\ e + 2 <= Len(s) /\ s[e + 1] = "." /\ s[e + 2] \in Digits
                 THEN DigitsEnd(s, e + 2)
                 ELSE p

\* NUMBER_RE.search(s): <<first, last>> of the leftmost match, <<>> for no match
NumberSearch(s) ==
    LET hits == {j \in 1..Len(s) : NumberMatchEnd(s, j) # 0}
    IN  IF hits = {} THEN <<>>
        ELSE LET j == CHOOSE x \in hits : \A y \in hits : x <= y
             IN  <<j, NumberMatchEnd(s, j)>>

\* (\$|€|£|₹)\s?[\d{1,3},]*\d+(\.\d+)? anchored at i: the index of the last
\* character matched, 0 for no match.  \s? takes a whitespace character when
\* there is one; giving it back never helps, a number cannot start with it.
CurrencyMatchEnd(s, i) ==
    IF ~(i <= Len(s) /\ s[i] \in CurrencySymbols) THEN 0
    ELSE IF i + 1 <= Len(s) /\ s[i + 1] \in Whitespace
         THEN NumberMatchEnd(s, i + 2)
         ELSE NumberMatchEnd(s, i + 1)

\* CURRENCY_RE.search(s): <<first, last>> of the leftmost match, <<>> for none
CurrencySearch(s) ==
    LET hits == {i \in 1..Len(s) : CurrencyMatchEnd(s, i) # 0}
    IN  IF hits = {} THEN <<>>
        ELSE LET i == CHOOSE x \in hits : \A y \in hits : x <= y
             IN  <<i, CurrencyMatchEnd(s, i)>>

(***************************************************************************)
(* float(text.replace(",", "")).                                           *)
(***************************************************************************)
RECURSIVE RemoveCommas(_)
RemoveCommas(s) ==
    IF s = <<>> THEN <<>>
    ELSE IF Head(s) = "," THEN RemoveCommas(Tail(s))
    ELSE <<Head(s)>> \o RemoveCommas(Tail(s))

DigitValue(c) ==
    CASE c = "0" -> 0 [] c = "1" -> 1 [] c = "2" -> 2 [] c = "3" -> 3
      [] c = "4" -> 4 [] c = "5" -> 5 [] c = "6" -> 6 [] c = "7" -> 7
      [] c = "8" -> 8 [] c = "9" -> 9

RECURSIVE DecimalValue(_)
DecimalValue(ds) ==
    IF ds = <<>> THEN 0
    ELSE 10 * DecimalValue(SubSeq(ds, 1, Len(ds) - 1)) + DigitValue(ds[Len(ds)])

RECURSIVE Pow10(_)
Pow10(n) == IF n = 0 THEN 1 ELSE 10 * Pow10(n - 1)

RECURSIVE Reduce(_, _)
Reduce(num, den) ==
    IF den > 1 /\ num % 10 = 0 THEN Reduce(num \div 10, den \div 10)
    ELSE <<num, den>>

\* float(t): the number num/den as <<num, den>>, or None when float raises
\* ValueError.  t is digits with at most one "." followed by digits, or it
\* holds a brace.
ParseFloat(t) ==
    IF \E k \in 1..Len(t) : t[k] \notin Digits \cup {"."} THEN None
    ELSE LET dots == {k \in 1..Len(t) : t[k] = "."}
         IN  IF dots = {} THEN
                 IF t = <<>> THEN None ELSE <<DecimalValue(t), 1>>
             ELSE IF Cardinality(dots) > 1 THEN None
             ELSE LET d == CHOOSE k \in dots : TRUE
                      ip == SubSeq(t, 1, d - 1)
                      fp == SubSeq(t, d + 1, Len(t))
                  IN  IF ip = <<>> /\ fp = <<>> THEN None
                      ELSE Reduce(DecimalValue(ip \o fp), Pow10(Len(fp)))

(***************************************************************************)
(* normalize_fields                                                        *)
(***************************************************************************)
\* raw.get(key)
Get(d, key) == IF key \in DOMAIN d THEN d[key] ELSE None

\* Python truth of an optional text: neither None nor ""
Truthy(t) == t # None /\ t # <<>>

\* m = CURRENCY_RE.search(price_raw); currency = m.group(1) if m
Currency(price_raw) ==
    IF ~Truthy(price_raw) THEN None
    ELSE LET m == CurrencySearch(price_raw)
         IN  IF m = <<>> THEN None ELSE <<price_raw[m[1]]>>

\* an amount that starts at 0.0 instead of None
AmountDefaultZero(price_raw) ==
    IF ~Truthy(price_raw) THEN <<0, 1>>
    ELSE LET num_m == NumberSearch(price_raw)
         IN  IF num_m = <<>> THEN <<0, 1>>
             ELSE LET v == ParseFloat(RemoveCommas(SubSeq(price_raw, num_m[1], num_m[2])))
                  IN  IF v = None THEN <<0, 1>> ELSE v

\* num_m = NUMBER_RE.search(price_raw); amount = float(...) unless it raises
Amount(price_raw) ==
    IF ~Truthy(price_raw) THEN None
    ELSE LET num_m == NumberSearch(price_raw)
         IN  IF num_m = <<>> THEN None
             ELSE ParseFloat(RemoveCommas(SubSeq(price_raw, num_m[1], num_m[2])))

normalize_fields(raw, now) ==
    LET price_raw == Get(raw, "price")
    IN  [title |-> Get(raw, "title"),
         price |-> [raw |-> price_raw,
                    amount |-> Amount(price_raw),
                    currency |-> Currency(price_raw)],
         availability |-> Get(raw, "availability"),
         extraction_timestamp |-> now]

(***************************************************************************)
(* Text helpers: str.lower, str.strip, str.find, slicing.                  *)
(***************************************************************************)
UpperLetters == <<"A", "B", "C", "D", "E", "F", "G", "H", "I", "J", "K", "L", "M",
                  "N", "O", "P", "Q", "R", "S", "T", "U", "V", "W", "X", "Y", "Z">>
LowerLetters == <<"a", "b", "c", "d", "e", "f", "g", "h", "i", "j", "k", "l", "m",
                  "n", "o", "p", "q", "r", "s", "t", "u", "v", "w", "x", "y", "z">>

LowerChar(c) ==
    IF \E k \in DOMAIN UpperLetters : UpperLetters[k] = c
    THEN LowerLetters[CHOOSE k \in DOMAIN UpperLetters : UpperLetters[k] = c]
    ELSE c

Lower(s) == [k \in DOMAIN s |-> LowerChar(s[k])]

RECURSIVE LStrip(_)
LStrip(s) ==
    IF s # <<>> /\ s[1] \in Whitespace THEN LStrip(Tail(s)) ELSE s

RECURSIVE RStrip(_)
RStrip(s) ==
    IF s # <<>> /\ s[Len(s)] \in Whitespace THEN RStrip(SubSeq(s, 1, Len(s) - 1)) ELSE s

Strip(s) == RStrip(LStrip(s))

\* text.find(phrase), counted from 1: the first index where phrase starts, 0
\* when phrase does not occur (Python's -1)
Find(text, phrase) ==
    LET at == {i \in 1..(Len(text) + 1 - Len(phrase)) :
                 SubSeq(text, i, i + Len(phrase) - 1) = phrase}
    IN  IF at = {} THEN 0 ELSE CHOOSE i \in at : \A j \in at : i <= j

\* phrase in text
Contains(text, phrase) == Find(text, phrase) # 0

Max(a, b) == IF a >= b THEN a ELSE b
Min(a, b) == IF a <= b THEN a ELSE b

\* text[lo:hi] for 0 <= lo, with Python's 0-based half-open bounds
Slice(text, lo, hi) == SubSeq(text, lo + 1, Min(hi, Len(text)))

(***************************************************************************)
(* The heuristics.  A document (soup) is the record of what BeautifulSoup  *)
(* answers about it:                                                       *)
(*   og_title, twitter_title  the content attribute of the first such meta *)
(*                            tag, None when the tag or attribute is absent*)
(*   title, h1, h2, h3        the text of the first such tag, None if none *)
(*   class_tags, id_tags      the tags that carry a class / an id, in      *)
(*                            document order, with their get_text          *)
(*   text                     soup.get_text(" ", strip=True)               *)
(*   select                   select_one per selector: kind "error" (it    *)
(*                            raises), "none" (no match) or "tag" with the  *)
(*                            matched tag's get_text                       *)
(***************************************************************************)
infer_title(s) ==
    IF Truthy(s.og_title) THEN Strip(s.og_title)
    ELSE IF Truthy(s.twitter_title) THEN Strip(s.twitter_title)
    ELSE IF s.title # None /\ Strip(s.title) # <<>> THEN Strip(s.title)
    ELSE IF s.h1 # None /\ Strip(s.h1) # <<>> THEN Strip(s.h1)
    ELSE IF s.h2 # None /\ Strip(s.h2) # <<>> THEN Strip(s.h2)
    ELSE IF s.h3 # None /\ Strip(s.h3) # <<>> THEN Strip(s.h3)
    ELSE None

\* the keyword and phrase literals, spelled as text
KW_PRICE == <<"p", "r", "i", "c", "e">>
KW_AMOUNT == <<"a", "m", "o", "u", "n", "t">>
KW_COST == <<"c", "o", "s", "t">>
KW_SALE == <<"s", "a", "l", "e">>
KW_OURPRICE == <<"o", "u", "r", "-", "p", "r", "i", "c", "e">>
PH_INSTOCK == <<"i", "n", " ", "s", "t", "o", "c", "k">>
PH_OUTOFSTOCK == <<"o", "u", "t", " ", "o", "f", " ", "s", "t", "o", "c", "k">>
PH_AVAILABLE == <<"a", "v", "a", "i", "l", "a", "b", "l", "e">>
PH_PRE_ORDER == <<"p", "r", "e", "-", "o", "r", "d", "e", "r">>
PH_PREORDER == <<"p", "r", "e", "o", "r", "d", "e", "r">>

PriceKeywords == <<KW_PRICE, KW_AMOUNT, KW_COST, KW_SALE, KW_OURPRICE>>

has_price_keyword(s) ==
    \E k \in DOMAIN PriceKeywords : Contains(Lower(s), PriceKeywords[k])

\* CURRENCY_RE.search(text).group(0), None for no match
CurrencyGroup0(text) ==
    LET m == CurrencySearch(text)
    IN  IF m = <<>> THEN None ELSE SubSeq(text, m[1], m[2])

\* the first tag of tags whose attribute holds a keyword and whose text holds
\* a currency pattern: that pattern's match, None when there is no such tag
FirstPricedTag(tags) ==
    LET hits == {k \in DOMAIN tags : has_price_keyword(tags[k].attr)
                                       /\ CurrencySearch(tags[k].text) # <<>>}
    IN  IF hits = {} THEN None
        ELSE CurrencyGroup0(tags[CHOOSE k \in hits : \A j \in hits : k <= j].text)

infer_price(s) ==
    IF FirstPricedTag(s.class_tags) # None THEN FirstPricedTag(s.class_tags)
    ELSE IF FirstPricedTag(s.id_tags) # None THEN FirstPricedTag(s.id_tags)
    ELSE CurrencyGroup0(s.text)

AvailabilityPhrases == <<PH_INSTOCK, PH_OUTOFSTOCK, PH_AVAILABLE, PH_PRE_ORDER, PH_PREORDER>>

WindowBefore == 30
WindowAfter == 50

\* the loop of infer_availability from phrase number k on
RECURSIVE AvailabilityFrom(_, _)
AvailabilityFrom(text, k) ==
    IF k > Len(AvailabilityPhrases) THEN None
    ELSE IF Contains(text, AvailabilityPhrases[k])
         THEN LET idx == Find(text, AvailabilityPhrases[k]) - 1
              IN  Strip(Slice(text, Max(0, idx - WindowBefore), idx + WindowAfter))
         ELSE AvailabilityFrom(text, k + 1)

\* a scan that takes the phrase that occurs first in the text
infer_availability_by_position(s) ==
    LET text == Lower(s.text)
        at == {Find(text, AvailabilityPhrases[k]) : k \in DOMAIN AvailabilityPhrases} \ {0}
    IN  IF at = {} THEN None
        ELSE LET idx == (CHOOSE i \in at : \A j \in at : i <= j) - 1
             IN  Strip(Slice(text, Max(0, idx - WindowBefore), idx + WindowAfter))

infer_availability(s) == AvailabilityFrom(Lower(s.text), 1)

(***************************************************************************)
(* apply_selectors and extract_from_html                                   *)
(***************************************************************************)
\* an exception on its way out of a call
Raise == <<"Raise">>

\* tag = soup.select_one(selector); tag.get_text(" ", strip=True) if tag else None
SelectText(s, selector) ==
    IF selector \notin DOMAIN s.select THEN None
    ELSE IF s.select[selector].kind = "error" THEN Raise
    ELSE IF s.select[selector].kind = "none" THEN None
    ELSE s.select[selector].text

\* with the except clause missing, the exception leaves apply_selectors
ExceptReraise(v) == v

\* try: results[field] = v  except Exception: results[field] = None
ExceptNone(v) == IF v = Raise THEN None ELSE v

apply_selectors(s, m) ==
    [field \in DOMAIN m |->
        IF m[field] = NoSelector \/ m[field] = "" THEN None
        ELSE ExceptNone(SelectText(s, m[field]))]

\* selected[field] = value
Put(d, field, value) ==
    [f \in DOMAIN d \cup {field} |-> IF f = field THEN value ELSE d[f]]

\* the three "fallback to heuristics" statements, in order
FallbackField(s, sel, field) ==
    IF Truthy(Get(sel, field)) THEN sel
    ELSE Put(sel, field, CASE field = "title" -> infer_title(s)
                           [] field = "price" -> infer_price(s)
                           [] field = "availability" -> infer_availability(s))

extract_from_html(s, m, now) ==
    LET s0 == apply_selectors(s, m)
        s1 == FallbackField(s, s0, "title")
        s2 == FallbackField(s, s1, "price")
        s3 == FallbackField(s, s2, "availability")
    IN  normalize_fields(s3, now)

(***************************************************************************)
(* extract_from_html, statement by statement.                              *)
(***************************************************************************)
\* datetime.datetime.utcnow(): the clock readings a call may see
Times == {"T1", "T2"}

\* an exception that apply_selectors lets out ends extract_from_html
ApplySelectors ==
    /\ pc = "apply"
    /\ LET r == apply_selectors(soup, mapping)
       IN  IF \E f \in DOMAIN r : r[f] = Raise
           THEN pc' = "raised" /\ selected' = selected
           ELSE pc' = "title" /\ selected' = r
    /\ UNCHANGED <<soup, mapping, invoked, record, llmVars, appVars>>

\* if not selected.get(field): selected[field] = infer_<field>(soup)
Fallback(field, heuristic, next) ==
    /\ pc = field
    /\ selected' = FallbackField(soup, selected, field)
    /\ invoked' = IF Truthy(Get(selected, field)) THEN invoked
                  ELSE invoked \cup {heuristic}
    /\ pc' = next
    /\ UNCHANGED <<soup, mapping, record, llmVars, appVars>>

FallbackTitle == Fallback("title", "infer_title", "price")
FallbackPrice == Fallback("price", "infer_price", "availability")
FallbackAvailability == Fallback("availability", "infer_availability", "normalize")

Normalize ==
    /\ pc = "normalize"
    /\ \E now \in Times : record' = normalize_fields(selected, now)
    /\ pc' = "done"
    /\ UNCHANGED <<soup, mapping, selected, invoked, llmVars, appVars>>

ExtractNext ==
    \/ ApplySelectors
    \/ FallbackTitle
    \/ FallbackPrice
    \/ FallbackAvailability
    \/ Normalize

\* llm_infer_selectors not called
LlmIdle ==
    /\ api_key = ""
    /\ sdk_installed = TRUE
    /\ model_idx = 1
    /\ attempted = <<>>
    /\ responses = <<>>
    /\ errors = <<>>
    /\ llm_result = <<>>
    /\ printed = <<>>
    /\ llm_pc = "idle"

\* the Run Extraction button not pressed
AppIdle ==
    /\ heap = <<>>
    /\ mapping_ref = "unbound"
    /\ inferred = <<>>
    /\ html = None
    /\ src = ""
    /\ effective_log = <<>>
    /\ results = <<>>
    /\ n_inputs = 0
    /\ done_inputs = 0
    /\ flags = <<>>
    /\ initial_input = <<>>
    /\ app_pc = "idle"

\* extract_from_html not called
ExtractIdle ==
    /\ soup = None
    /\ mapping = <<>>
    /\ selected = <<>>
    /\ invoked = {}
    /\ record = None
    /\ pc = "idle"

\* the state on entry to extract_from_html(html, m) for the document s
ExtractEntry(s, m) ==
    /\ LlmIdle
    /\ AppIdle
    /\ soup = s
    /\ mapping = m
    /\ selected = <<>>
    /\ invoked = {}
    /\ record = None
    /\ pc = "apply"

\* a document in which nothing is found
BlankSoup ==
    [og_title |-> None, twitter_title |-> None, title |-> None,
     h1 |-> None, h2 |-> None, h3 |-> None,
     class_tags |-> <<>>, id_tags |-> <<>>, text |-> <<>>,
     select |-> <<>>]

(***************************************************************************)
(* SpecNorm: normalize_fields on every raw price text of up to MaxRawLen   *)
(* characters of RawAlphabet.                                              *)
(***************************************************************************)
MaxRawLen == 4
RawAlphabet == {"$", "€", "1", "0", ",", ".", "{", " ", "a"}

TextsUpTo(alphabet, n) == UNION {[1..k -> alphabet] : k \in 0..n}

RawInputs ==
    {<<>>}
    \cup {[title |-> None, price |-> p, availability |-> None] :
            p \in {None} \cup TextsUpTo(RawAlphabet, MaxRawLen)}

InitNorm ==
    /\ LlmIdle
    /\ AppIdle
    /\ soup = BlankSoup
    /\ mapping = <<>>
    /\ selected \in RawInputs
    /\ invoked = {}
    /\ record = None
    /\ pc = "normalize"

NextNorm == Normalize

SpecNorm == InitNorm /\ [][NextNorm]_vars

\* C6: in every record normalize_fields produces, price.amount is set only
\* if price.raw is set and holds a digit (a parseable numeric substring), and
\* with no raw price text the price object is all null.
C6_AmountOnlyFromNumber ==
    pc = "done" =>
        /\ record.price.amount # None =>
              /\ record.price.raw # None
              /\ \E k \in DOMAIN record.price.raw : record.price.raw[k] \in Digits
        /\ Get(selected, "price") = None =>
              record.price = [raw |-> None, amount |-> None, currency |-> None]

\* a record whose amount was read out of a raw text that is not a number alone
C6_Witness ==
    /\ pc = "done"
    /\ record.price.raw = <<"a", "1", ",", "0">>
    /\ record.price.amount = <<10, 1>>

\* the first currency symbol that occurs in a text, None when none occurs
FirstSymbol(t) ==
    LET at == {k \in DOMAIN t : t[k] \in CurrencySymbols}
    IN  IF at = {} THEN None ELSE <<t[CHOOSE k \in at : \A j \in at : k <= j]>>

\* C7 as stated: with raw price text present, currency is the first currency
\* symbol occurring in it, whether or not an amount was found or parsed.
C7_CurrencyIsFirstSymbol ==
    (pc = "done" /\ Truthy(Get(selected, "price"))) =>
        /\ record.price.raw = Get(selected, "price")
        /\ record.price.currency = FirstSymbol(Get(selected, "price"))

\* a number starts at j: a run of digits, commas and braces from j on that
\* holds a digit
NumberStartsAt(t, j) ==
    \E d \in j..Len(t) : t[d] \in Digits /\ \A k \in j..d : t[k] \in NumClass

\* a currency pattern starts at i: a symbol, then a number, at once or after
\* one whitespace character
PatternStartsAt(t, i) ==
    /\ t[i] \in CurrencySymbols
    /\ \/ NumberStartsAt(t, i + 1)
       \/ i + 1 <= Len(t) /\ t[i + 1] \in Whitespace /\ NumberStartsAt(t, i + 2)

\* What normalize_fields sets instead: raw is the text and currency is the
\* symbol that opens the first currency pattern in it (null when no symbol is
\* followed by a number), whether or not the amount parsed.
CurrencyOpensFirstPattern ==
    (pc = "done" /\ Truthy(Get(selected, "price"))) =>
        LET t == Get(selected, "price")
            at == {i \in DOMAIN t : PatternStartsAt(t, i)}
        IN  /\ record.price.raw = t
            /\ record.price.currency =
                  IF at = {} THEN None
                  ELSE <<t[CHOOSE i \in at : \A j \in at : i <= j]>>

\* a currency found next to a number that does not parse
CurrencyBesideUnparsedNumber ==
    /\ pc = "done"
    /\ record.price.raw = <<"€", "$", "{", "1">>
    /\ record.price.currency = <<"$">>
    /\ record.price.amount = None

(***************************************************************************)
(* SpecTitle: extract_from_html with no selectors on the documents whose   *)
(* six title sources are each absent, empty, blank or a padded word.       *)
(***************************************************************************)
TitleValues(c) == {None, <<>>, <<" ">>, <<" ", c, " ">>}

TitleSoups ==
    {[BlankSoup EXCEPT !.og_title = og, !.twitter_title = tw, !.title = ti,
                       !.h1 = a, !.h2 = b, !.h3 = c] :
        og \in TitleValues("O"), tw \in TitleValues("W"), ti \in TitleValues("T"),
        a \in TitleValues("A"), b \in TitleValues("B"), c \in TitleValues("C")}

InitTitle == \E s \in TitleSoups : ExtractEntry(s, <<>>)

NextTitle == ExtractNext

SpecTitle == InitTitle /\ [][NextTitle]_vars

TitleStrategies(s) == <<s.og_title, s.twitter_title, s.title, s.h1, s.h2, s.h3>>

\* C8: infer_title returns the stripped value of the first source, in the
\* order og, twitter, title, h1, h2, h3, that is neither absent nor blank,
\* and null when there is none: never an empty string.
C8_FirstNonEmptyTitle ==
    "infer_title" \in invoked =>
        LET st == TitleStrategies(soup)
            hits == {k \in DOMAIN st : st[k] # None /\ Strip(st[k]) # <<>>}
        IN  selected["title"] =
                IF hits = {} THEN None
                ELSE Strip(st[CHOOSE k \in hits : \A j \in hits : k <= j])

(***************************************************************************)
(* SpecAvail: extract_from_html with no selectors on the documents whose   *)
(* text is up to MaxSegs segments of AvailSegments.                        *)
(***************************************************************************)
\* the segments, spelled as text
SEG_INSTOCK == <<"I", "n", " ", "s", "t", "o", "c", "k">>
SEG_PREORDER == <<"P", "r", "e", "-", "o", "r", "d", "e", "r">>
SEG_OUTOFSTOCK == <<"o", "u", "t", " ", "o", "f", " ", "s", "t", "o", "c", "k">>
SEG_AVAILABLE == <<"a", "v", "a", "i", "l", "a", "b", "l", "e">>
SEG_PREORDER2 == <<"p", "r", "e", "o", "r", "d", "e", "r">>
SEG_PAD == <<"x", "x", "x", "x", "x", "x", "x", "x", "x", "x", "x", "x", "x", "x", "x", "x", "x", "x", "x", "x", "x", "x", "x", "x", " ">>

MaxSegs == 3
AvailSegments ==
    {SEG_INSTOCK, SEG_PREORDER, SEG_OUTOFSTOCK, SEG_AVAILABLE, SEG_PREORDER2,
     SEG_PAD, <<" ">>}

RECURSIVE Concat(_)
Concat(segs) == IF segs = <<>> THEN <<>> ELSE Head(segs) \o Concat(Tail(segs))

\* get_text(" ", strip=True) never begins or ends with whitespace
AvailTexts ==
    {t \in {Concat(segs) : segs \in TextsUpTo(AvailSegments, MaxSegs)} : Strip(t) = t}

InitAvail == \E t \in AvailTexts : ExtractEntry([BlankSoup EXCEPT !.text = t], <<>>)

NextAvail == ExtractNext

SpecAvail == InitAvail /\ [][NextAvail]_vars

OG1 ==
    <<"W", "i", "d", "g", "e", "t", " ", "X">>
TITLE1 ==
    <<"W", "i", "d", "g", "e", "t", " ", "X", " ", "-", " ", "B", "u", "y", " ", "N", "o", "w">>
H1_1 ==
    <<"O", "t", "h", "e", "r">>
CLASS1 ==
    <<[attr |-> <<"p", "r", "o", "d", "u", "c", "t">>,
       text |-> <<"O", "t", "h", "e", "r", " ", "₹", "1", "0", "4", "9", " ", "I", "n", " ", "s", "t", "o", "c", "k">>],
      [attr |-> <<"p", "r", "o", "d", "u", "c", "t", "-", "t", "i", "t", "l", "e">>,
       text |-> <<"O", "t", "h", "e", "r">>],
      [attr |-> <<"p", "r", "i", "c", "e">>,
       text |-> <<"₹", "1", "0", "4", "9">>],
      [attr |-> <<"a", "v", "a", "i", "l", "a", "b", "i", "l", "i", "t", "y">>,
       text |-> <<"I", "n", " ", "s", "t", "o", "c", "k">>]>>
ID1 ==
    <<[attr |-> <<"p", "r", "i", "c", "i", "n", "g">>,
       text |-> <<"₹", "1", "0", "4", "9", " ", "I", "n", " ", "s", "t", "o", "c", "k">>],
      [attr |-> <<"a", "v", "a", "i", "l", "a", "b", "i", "l", "i", "t", "y">>,
       text |-> <<"I", "n", " ", "s", "t", "o", "c", "k">>]>>
TEXT1 ==
    <<"W", "i", "d", "g", "e", "t", " ", "X", " ", "-", " ", "B", "u", "y", " ", "N", "o", "w", " ", "O", "t", "h", "e", "r", " ", "₹", "1", "0", "4", "9", " ", "I", "n", " ", "s", "t", "o", "c", "k">>
SELECT1 ==
    [sel \in {".product-title", ".price", "#availability", ".empty", ".miss", "bad["} |->
        CASE sel = ".product-title" -> [kind |-> "tag", text |-> <<"O", "t", "h", "e", "r">>]
          [] sel = ".price" -> [kind |-> "tag", text |-> <<"₹", "1", "0", "4", "9">>]
          [] sel = "#availability" -> [kind |-> "tag", text |-> <<"I", "n", " ", "s", "t", "o", "c", "k">>]
          [] sel = ".empty" -> [kind |-> "tag", text |-> <<>>]
          [] sel = ".miss" -> [kind |-> "none"]
          [] sel = "bad[" -> [kind |-> "error"]]
H1_3 ==
    <<"G", "a", "d", "g", "e", "t">>
ID3 ==
    <<[attr |-> <<"s", "k", "u">>,
       text |-> <<"G", "-", "1">>],
      [attr |-> <<"C", "o", "s", "t">>,
       text |-> <<"o", "n", "l", "y", " ", "$", " ", "5", ".", "5", "0", " ", "l", "e", "f", "t">>]>>
TEXT3 ==
    <<"G", "a", "d", "g", "e", "t", " ", "P", "r", "e", "-", "o", "r", "d", "e", "r", " ", "n", "o", "w", " ", "o", "n", "l", "y", " ", "$", " ", "5", ".", "5", "0", " ", "l", "e", "f", "t", ",", " ", "o", "u", "t", " ", "o", "f", " ", "s", "t", "o", "c", "k", " ", "s", "o", "o", "n">>
SELECT3 ==
    [sel \in {".product-title", ".price", "#availability", ".empty", ".miss", "bad["} |->
        CASE sel = ".product-title" -> [kind |-> "tag", text |-> <<"G", "a", "d", "g", "e", "t">>]
          [] sel = ".price" -> [kind |-> "tag", text |-> <<"$", "{", "5", "}">>]
          [] sel = "#availability" -> [kind |-> "none"]
          [] sel = ".empty" -> [kind |-> "tag", text |-> <<>>]
          [] sel = ".miss" -> [kind |-> "none"]
          [] sel = "bad[" -> [kind |-> "error"]]
SELECT2 ==
    [sel \in {".product-title", ".price", "#availability", ".empty", ".miss", "bad["} |->
        CASE sel = ".product-title" -> [kind |-> "none"]
          [] sel = ".price" -> [kind |-> "none"]
          [] sel = "#availability" -> [kind |-> "none"]
          [] sel = ".empty" -> [kind |-> "none"]
          [] sel = ".miss" -> [kind |-> "none"]
          [] sel = "bad[" -> [kind |-> "error"]]

ProductSoup ==
    [og_title |-> OG1, twitter_title |-> None,
     title |-> TITLE1,
     h1 |-> H1_1, h2 |-> None, h3 |-> None,
     class_tags |-> CLASS1,
     id_tags |-> ID1,
     text |-> TEXT1,
     select |-> SELECT1]

GadgetSoup ==
    [og_title |-> <<" ", " ">>, twitter_title |-> None, title |-> None,
     h1 |-> H1_3, h2 |-> None, h3 |-> None,
     class_tags |-> <<>>,
     id_tags |-> ID3,
     text |-> TEXT3,
     select |-> SELECT3]

EmptySoup == [BlankSoup EXCEPT !.select = SELECT2]

ExtractSoups == {ProductSoup, GadgetSoup, EmptySoup}

ExtractSelectors ==
    {NoSelector, "", ".product-title", ".price", "#availability", ".empty", ".miss", "bad["}

\* the dicts with keys among the fields and values in vals
DictsOver(vals) == UNION {[keys -> vals] : keys \in SUBSET FieldSet}

InitExtract == \E s \in ExtractSoups, m \in DictsOver(ExtractSelectors) : ExtractEntry(s, m)

NextExtract == ExtractNext

SpecExtract == InitExtract /\ [][NextExtract]_vars

Heuristic(field) == "infer_" \o field

\* the field's selector is supplied and matches an element of the document
Matches(field) ==
    /\ field \in DOMAIN mapping
    /\ mapping[field] \notin {NoSelector, ""}
    /\ mapping[field] \in DOMAIN soup.select
    /\ soup.select[mapping[field]].kind = "tag"

RecordField(field) == IF field = "price" THEN record.price.raw ELSE record[field]

\* C4: for a field whose selector matches an element, the field's heuristic is
\* never invoked and the field's value is the text of the matched element.
C4_SelectorPrecedence ==
    pc = "done" =>
        \A f \in FieldSet :
            Matches(f) =>
                /\ Heuristic(f) \notin invoked
                /\ RecordField(f) = soup.select[mapping[f]].text

\* the field's selector is supplied and is malformed or matches nothing
Fails(field) ==
    /\ field \in DOMAIN mapping
    /\ mapping[field] \notin {NoSelector, ""}
    /\ \/ mapping[field] \notin DOMAIN soup.select
       \/ soup.select[mapping[field]].kind \in {"error", "none"}

\* C5: extract_from_html is never stopped by an exception, whatever the
\* selector map: it is at one of its statements, each of which can run, until
\* it returns, and it returns a record of the full shape; right after
\* apply_selectors a malformed or unmatched selector has given null for its
\* own field, and every matching selector its element's text.
C5_ExtractionCompletes ==
    /\ pc # "raised"
    /\ pc \in {"apply", "title", "price", "availability", "normalize", "done"}
    /\ pc = "done" =>
          /\ DOMAIN record = {"title", "price", "availability", "extraction_timestamp"}
          /\ DOMAIN record.price = {"raw", "amount", "currency"}
          /\ record.extraction_timestamp \in Times
    /\ pc = "title" =>
          /\ DOMAIN selected = DOMAIN mapping
          /\ \A f \in DOMAIN mapping :
                /\ Fails(f) => selected[f] = None
                /\ Matches(f) => selected[f] = soup.select[mapping[f]].text

\* a malformed title selector beside a matching price selector whose text
\* holds a number that does not parse
C5_Witness ==
    /\ pc = "done"
    /\ Fails("title") /\ mapping["title"] = "bad["
    /\ Matches("price")
    /\ record.price.raw = soup.select[mapping["price"]].text
    /\ record.price.raw # <<>>
    /\ record.price.amount = None
    /\ record.title # None

(***************************************************************************)
(* llm_infer_selectors.  A response text is a sequence of tokens [k, v]:   *)
(* k = "p" punctuation, "s" a JSON string literal of value v, "null",      *)
(* "w" a bare word, "ws" whitespace, "fence" a code fence, plain or tagged  *)
(* json.                                                                   *)
(***************************************************************************)
ModelsToTry ==
    <<"gemini-2.5-flash", "gemini-2.0-flash", "gemini-1.5-flash", "gemini-1.5-pro">>

P(v) == [k |-> "p", v |-> v]
S(v) == [k |-> "s", v |-> v]
W(v) == [k |-> "w", v |-> v]
Ws == [k |-> "ws", v |-> " "]
Nl == [k |-> "ws", v |-> "\n"]
JsonNull == [k |-> "null", v |-> "null"]
\* the three backquotes, with and without the language tag
FenceJson == [k |-> "fence", v |-> "fence:json"]
Fence == [k |-> "fence", v |-> "fence:"]

\* text.strip() on tokens
RECURSIVE StripTokens(_)
StripTokens(t) ==
    IF t # <<>> /\ t[1].k = "ws" THEN StripTokens(Tail(t))
    ELSE IF t # <<>> /\ t[Len(t)].k = "ws" THEN StripTokens(SubSeq(t, 1, Len(t) - 1))
    ELSE t

\* the index of the first token of t in toks, 0 when there is none
FirstOf(t, toks) ==
    LET at == {i \in DOMAIN t : t[i] \in toks}
    IN  IF at = {} THEN 0 ELSE CHOOSE i \in at : \A j \in at : i <= j

\* text.split(sep, 1)[1].split(fence, 1)[0].strip(), where the text holds
\* sep: what stands after the first sep up to the next fence.  The plain fence
\* is found in the tagged one too.
BetweenFences(t, sep, closers) ==
    LET rest == SubSeq(t, FirstOf(t, {sep}) + 1, Len(t))
        close == FirstOf(rest, closers)
    IN  StripTokens(IF close = 0 THEN rest ELSE SubSeq(rest, 1, close - 1))

\* "Clean up any markdown code blocks"
CleanFences(t) ==
    IF FirstOf(t, {FenceJson}) # 0 THEN BetweenFences(t, FenceJson, {Fence, FenceJson})
    ELSE IF FirstOf(t, {Fence}) # 0 THEN BetweenFences(t, Fence, {Fence})
    ELSE t

\* json.JSONDecodeError on its way out of json.loads
JsonRaise == [type |-> "JSONDecodeError", value |-> <<>>]

\* the members "key": value, ... of an object, from token i on: the dict they
\* build (a later duplicate key wins), or JsonRaise
RECURSIVE JsonMembers(_, _, _)
JsonMembers(t, i, acc) ==
    IF i + 2 > Len(t) THEN JsonRaise
    ELSE IF ~(t[i].k = "s" /\ t[i + 1] = P(":") /\ t[i + 2].k \in {"s", "null"}) THEN JsonRaise
    ELSE LET d == Put(acc, t[i].v, IF t[i + 2].k = "null" THEN NoSelector ELSE t[i + 2].v)
         IN  IF i + 3 = Len(t) /\ t[i + 3] = P("}") THEN [type |-> "dict", value |-> d]
             ELSE IF i + 3 < Len(t) /\ t[i + 3] = P(",") THEN JsonMembers(t, i + 4, d)
             ELSE JsonRaise

\* json.loads(text): the parsed value with its type, or JsonRaise.
\* Whitespace between tokens is skipped; a fence or a
\* bare word is no JSON.
JsonLoads(text) ==
    LET t == SelectSeq(text, LAMBDA tok : tok.k # "ws")
    IN  IF t = <<>> THEN JsonRaise
        ELSE IF Len(t) = 1 /\ t[1].k = "s" THEN [type |-> "str", value |-> t[1].v]
        ELSE IF Len(t) = 1 /\ t[1].k = "null" THEN [type |-> "null", value |-> NoSelector]
        ELSE IF t = <<P("{"), P("}")>> THEN [type |-> "dict", value |-> <<>>]
        ELSE IF t[1] = P("{") THEN JsonMembers(t, 2, <<>>)
        ELSE IF t[1] = P("[") /\ t[Len(t)] = P("]")
                /\ \A i \in 2..(Len(t) - 1) :
                      IF i % 2 = 0 THEN t[i].k \in {"s", "null"} ELSE t[i] = P(",")
                /\ (Len(t) = 2 \/ Len(t) % 2 = 1)
             THEN [type |-> "list", value |-> <<>>]
        ELSE JsonRaise

\* the answers a backend gives in this model
RespRaise == [kind |-> "raise"]
RespNoText == [kind |-> "notext"]
RespBlank == [kind |-> "text", text |-> <<Ws, Nl>>]
RespProse == [kind |-> "text", text |-> <<W("Sure"), Ws, W("thing")>>]
RespList == [kind |-> "text", text |-> <<P("["), S(".t"), P("]")>>]
RespOtherKeys == [kind |-> "text", text |-> <<P("{"), S("selector"), P(":"), S(".x"), P("}")>>]
RespEmptyDict == [kind |-> "text", text |-> <<P("{"), P("}")>>]
RespFull ==
    [kind |-> "text",
     text |-> <<Ws, P("{"), S("title"), P(":"), Ws, S("h1.t"), P(","),
                S("price"), P(":"), Ws, S(".p"), P(","),
                S("availability"), P(":"), Ws, S("#a"), P("}"), Nl>>]
RespFencedJson ==
    [kind |-> "text",
     text |-> <<W("Here"), Nl, FenceJson, Nl, P("{"), S("price"), P(":"), S(".p2"), P("}"),
                Nl, Fence, Nl, W("done")>>]
RespFenced ==
    [kind |-> "text",
     text |-> <<Fence, Nl, P("{"), S("title"), P(":"), S(".t3"), P(","),
                S("note"), P(":"), S("x"), P("}"), Nl, Fence>>]
RespNullTitle ==
    [kind |-> "text", text |-> <<P("{"), S("title"), P(":"), JsonNull, P("}")>>]
RespUnclosedFence ==
    [kind |-> "text",
     text |-> <<FenceJson, P("{"), S("availability"), P(":"), S("#s"), P("}")>>]

LlmResponses ==
    {RespRaise, RespNoText, RespBlank, RespProse, RespList, RespOtherKeys,
     RespEmptyDict, RespFull, RespFencedJson, RespFenced, RespNullTitle,
     RespUnclosedFence}

\* an exception of the given class with the given message
Exc(class, msg) == [class |-> class, msg |-> msg]

\* the body of the try block for one model: [ok, value] when it reaches
\* `return parsed`, [ok, exc] when a statement raises.  A response is
\* kind "raise" (generate_content raises), "notext" (response.text is None)
\* or "text".
AttemptOutcome(r) ==
    IF r.kind = "raise" THEN [ok |-> FALSE, exc |-> Exc("APIError", "backend error")]
    ELSE IF r.kind = "notext"
         THEN [ok |-> FALSE, exc |-> Exc("AttributeError", "NoneType has no strip")]
    ELSE LET text == StripTokens(r.text)
         IN  IF text = <<>>
             THEN [ok |-> FALSE, exc |-> Exc("ValueError", "Empty response from model")]
             ELSE LET parsed == JsonLoads(CleanFences(text))
                  IN  IF parsed = JsonRaise
                      THEN [ok |-> FALSE, exc |-> Exc("JSONDecodeError", "Expecting value")]
                      ELSE IF parsed.type = "dict"
                              /\ \E key \in FieldSet : key \in DOMAIN parsed.value
                      THEN [ok |-> TRUE, value |-> parsed.value]
                      ELSE [ok |-> FALSE,
                            exc |-> Exc("ValueError", "Invalid JSON structure")]

\* an except clause that names ValueError alone
CatchesValueErrorOnly(exc) == exc.class \in {"ValueError", "JSONDecodeError"}

\* except Exception as exc: every exception a model attempt raises
Catches(exc) == exc.class \in {"APIError", "AttributeError", "ValueError", "JSONDecodeError"}

\* a loop that does not move on after a failure
SameModelAgain(i) == i

\* `continue`: the for loop takes the next model
NextModel(i) == i + 1

\* if not api_key / except ImportError: print and return {}
LlmEnter ==
    /\ llm_pc = "entry"
    /\ IF api_key = ""
       THEN /\ printed' = Append(printed, [line |-> "Gemini API key not found"])
            /\ llm_result' = <<>>
            /\ llm_pc' = "returned"
       ELSE IF ~sdk_installed
       THEN /\ printed' = Append(printed, [line |-> "google-genai package not installed"])
            /\ llm_result' = <<>>
            /\ llm_pc' = "returned"
       ELSE /\ llm_pc' = "loop"
            /\ UNCHANGED <<printed, llm_result>>
    /\ UNCHANGED <<api_key, sdk_installed, model_idx, attempted, responses, errors>>
    /\ UNCHANGED <<extractVars, appVars>>

\* one pass of `for model_name in models_to_try`, the backend answering r
LlmAttemptWith(r) ==
    LET model_name == ModelsToTry[model_idx]
        out == AttemptOutcome(r)
    IN  /\ attempted' = Append(attempted, model_name)
        /\ responses' = Append(responses, r)
        /\ IF out.ok
           THEN /\ printed' = Append(printed, [line |-> "Successfully used model",
                                               model |-> model_name])
                /\ llm_result' = out.value
                /\ llm_pc' = "returned"
                /\ UNCHANGED <<errors, model_idx>>
           ELSE IF Catches(out.exc)
           THEN /\ errors' = Put(errors, model_name, out.exc.msg)
                /\ model_idx' = NextModel(model_idx)
                /\ UNCHANGED <<printed, llm_result, llm_pc>>
           ELSE /\ llm_pc' = "raised"
                /\ UNCHANGED <<errors, model_idx, printed, llm_result>>

LlmAttempt ==
    /\ llm_pc = "loop"
    /\ model_idx <= Len(ModelsToTry)
    /\ \E r \in LlmResponses : LlmAttemptWith(r)
    /\ UNCHANGED <<api_key, sdk_installed>>
    /\ UNCHANGED <<extractVars, appVars>>

\* after the loop: report the failures and return {}
LlmExhausted ==
    /\ llm_pc = "loop"
    /\ model_idx > Len(ModelsToTry)
    /\ printed' = IF errors # <<>>
                  THEN Append(printed, [line |-> "All models failed", errors |-> errors])
                  ELSE printed
    /\ llm_result' = <<>>
    /\ llm_pc' = "returned"
    /\ UNCHANGED <<api_key, sdk_installed, model_idx, attempted, responses, errors>>
    /\ UNCHANGED <<extractVars, appVars>>

\* the whole call, for the answers rs the backend gives to the models in turn
RECURSIVE LlmLoop(_, _)
LlmLoop(rs, i) ==
    IF i > Len(ModelsToTry) THEN <<>>
    ELSE IF AttemptOutcome(rs[i]).ok THEN AttemptOutcome(rs[i]).value
    ELSE LlmLoop(rs, NextModel(i))

llm_infer_selectors(rs, key) == IF key = "" THEN <<>> ELSE LlmLoop(rs, 1)

(***************************************************************************)
(* SpecLLM: llm_infer_selectors with and without a key, with and without   *)
(* the SDK, the backend answering each model from LlmResponses.            *)
(***************************************************************************)
InitLLM ==
    /\ ExtractIdle
    /\ AppIdle
    /\ api_key \in {"", "key"}
    /\ sdk_installed \in BOOLEAN
    /\ model_idx = 1
    /\ attempted = <<>>
    /\ responses = <<>>
    /\ errors = <<>>
    /\ llm_result = <<>>
    /\ printed = <<>>
    /\ llm_pc = "entry"

NextLLM ==
    \/ LlmEnter
    \/ LlmAttempt
    \/ LlmExhausted

SpecLLM == InitLLM /\ [][NextLLM]_vars

\* what each acceptable answer of LlmResponses holds, read off its text
ExpectedMappings ==
    <<<<RespFull, [title |-> "h1.t", price |-> ".p", availability |-> "#a"]>>,
      <<RespFencedJson, [price |-> ".p2"]>>,
      <<RespFenced, [title |-> ".t3", note |-> "x"]>>,
      <<RespNullTitle, [title |-> NoSelector]>>,
      <<RespUnclosedFence, [availability |-> "#s"]>>>>

IsAcceptable(r) == \E k \in DOMAIN ExpectedMappings : ExpectedMappings[k][1] = r

ExpectedOf(r) ==
    ExpectedMappings[CHOOSE k \in DOMAIN ExpectedMappings : ExpectedMappings[k][1] = r][2]

\* C1: the models are attempted in list order, each at most once; when the
\* first N answers are failures and answer N+1 is an acceptable mapping, the
\* call has returned exactly that mapping, no further model is attempted and
\* no error is raised.
C1_FallbackToFirstAcceptable ==
    /\ attempted = SubSeq(ModelsToTry, 1, Len(attempted))
    /\ Len(responses) = Len(attempted)
    /\ llm_pc # "raised"
    /\ \A n \in DOMAIN responses :
          (IsAcceptable(responses[n]) /\ \A k \in 1..(n - 1) : ~IsAcceptable(responses[k]))
              => /\ Len(attempted) = n
                 /\ llm_pc = "returned"
                 /\ llm_result = ExpectedOf(responses[n])

\* two failures, then the third model answers with a fenced mapping
C1_Witness ==
    /\ llm_pc = "returned"
    /\ responses = <<RespProse, RespRaise, RespFencedJson>>
    /\ attempted = <<"gemini-2.5-flash", "gemini-2.0-flash", "gemini-1.5-flash">>
    /\ llm_result = [price |-> ".p2"]
    /\ DOMAIN errors = {"gemini-2.5-flash", "gemini-2.0-flash"}

\* C2: no backend failure raises to the caller; every failed attempt is
\* recorded under its model and the loop moves to the next model; when every
\* model has failed the call returns {} with one recorded failure per model.
C2_FailuresRecordedNotRaised ==
    /\ llm_pc # "raised"
    /\ DOMAIN errors = {ModelsToTry[k] : k \in {n \in DOMAIN responses : ~IsAcceptable(responses[n])}}
    /\ llm_pc = "loop" => model_idx = Len(responses) + 1
    /\ (llm_pc = "returned" /\ Len(responses) = Len(ModelsToTry)
            /\ \A n \in DOMAIN responses : ~IsAcceptable(responses[n]))
          => /\ llm_result = <<>>
             /\ Cardinality(DOMAIN errors) = Len(ModelsToTry)
             /\ printed[Len(printed)] = [line |-> "All models failed", errors |-> errors]

\* four failures of four kinds
C2_Witness ==
    /\ llm_pc = "returned"
    /\ responses = <<RespRaise, RespNoText, RespBlank, RespList>>
    /\ llm_result = <<>>
    /\ errors["gemini-1.5-flash"] = "Empty response from model"
    /\ errors["gemini-1.5-pro"] = "Invalid JSON structure"

(***************************************************************************)
(* The batch loop of app.py.  Dicts live in a heap, by reference:          *)
(* "mapping_input" is the dict of the three text inputs, "copy" the dict   *)
(* the current iteration made.                                             *)
(***************************************************************************)
\* d.get(key) for a dict of selectors
GetSelector(d, key) == IF key \in DOMAIN d THEN d[key] ELSE NoSelector

\* Python truth of an optional selector
TruthySelector(v) == v # NoSelector /\ v # ""

\* a merge that lets a suggestion replace the caller's selector
MergeSuggestionFirst(m, inf) ==
    [key \in DOMAIN m \cup {k \in FieldSet : TruthySelector(GetSelector(inf, k))} |->
        IF key \in FieldSet /\ TruthySelector(GetSelector(inf, key))
        THEN inf[key] ELSE m[key]]

\* for key in [...]: if inferred.get(key) and not mapping.get(key):
\*                       mapping[key] = inferred[key]
MergeSuggestions(m, inf) ==
    LET takes(key) == /\ key \in FieldSet
                      /\ TruthySelector(GetSelector(inf, key))
                      /\ ~TruthySelector(GetSelector(m, key))
    IN  [key \in DOMAIN m \cup {k \in FieldSet : takes(k)} |->
            IF takes(key) THEN inf[key] ELSE m[key]]

\* mapping = mapping_input: a second name for the caller's dict
AliasRef(source) == source

\* mapping_input.copy(): a new dict object
CopyRef(source) == "copy"

MaxDocs == 2
AppSoups == <<[name |-> "product_1.html", soup |-> ProductSoup],
              [name |-> "empty.html", soup |-> EmptySoup]>>
AppResponses == {RespRaise, RespFull, RespFencedJson}
CallerSelectors == {"", ".product-title"}

InitApp ==
    /\ ExtractIdle
    /\ LlmIdle
    /\ \E mapping_input \in [FieldSet -> CallerSelectors] :
          /\ heap = [r \in {"mapping_input"} |-> mapping_input]
          /\ initial_input = mapping_input
    /\ mapping_ref = "unbound"
    /\ inferred = <<>>
    /\ html = None
    /\ src = ""
    /\ effective_log = <<>>
    /\ results = <<>>
    /\ n_inputs \in 1..MaxDocs
    /\ done_inputs = 0
    /\ flags \in [use_live : BOOLEAN, use_llm_inference : BOOLEAN,
                  GEMINI_API_KEY : {"", "key"}]
    /\ app_pc = "load"

\* "Fetch or Load HTML": a URL is skipped with live fetch off or when the
\* fetch fails; an upload or a snapshot brings its name and its text
LoadInput ==
    /\ app_pc = "load"
    /\ done_inputs < n_inputs
    /\ \E typ \in {"url", "upload", "snapshot"}, fetched \in BOOLEAN,
          d \in DOMAIN AppSoups :
          IF typ = "url" /\ (~flags.use_live \/ ~fetched)
          THEN /\ done_inputs' = done_inputs + 1
               /\ html' = BlankSoup
               /\ src' = ""
               /\ UNCHANGED app_pc
          ELSE /\ html' = AppSoups[d].soup
               /\ src' = AppSoups[d].name
               /\ app_pc' = "infer"
               /\ UNCHANGED done_inputs
    /\ UNCHANGED <<heap, mapping_ref, inferred, effective_log, results, n_inputs,
                   flags, initial_input>>
    /\ UNCHANGED <<extractVars, llmVars>>

\* "Optional LLM Inference": copy the caller's dict, and with the feature on
\* and a key present merge what llm_infer_selectors returns into the copy
InferSelectors ==
    /\ app_pc = "infer"
    /\ LET ref == CopyRef("mapping_input")
           copied == [r \in DOMAIN heap \cup {ref} |->
                        IF r = ref THEN heap["mapping_input"] ELSE heap[r]]
       IN  /\ mapping_ref' = ref
           /\ IF flags.use_llm_inference /\ flags.GEMINI_API_KEY # ""
              THEN \E rs \in [DOMAIN ModelsToTry -> AppResponses] :
                      LET inf == llm_infer_selectors(rs, flags.GEMINI_API_KEY)
                      IN  /\ inferred' = inf
                          /\ heap' = IF inf # <<>>
                                     THEN [copied EXCEPT ![ref] = MergeSuggestions(copied[ref], inf)]
                                     ELSE copied
              ELSE /\ heap' = copied
                   /\ UNCHANGED inferred
    /\ app_pc' = "extract"
    /\ UNCHANGED <<html, src, effective_log, results, n_inputs, done_inputs, flags,
                   initial_input>>
    /\ UNCHANGED <<extractVars, llmVars>>

\* "Extract Data": the record of extract_from_html with its _source appended
\* to results; the clock reading is the number of the input
Extract ==
    /\ app_pc = "extract"
    /\ results' = Append(results,
                         Put(extract_from_html(html, heap[mapping_ref], done_inputs),
                             "_source", src))
    /\ effective_log' = Append(effective_log, heap[mapping_ref])
    /\ done_inputs' = done_inputs + 1
    /\ app_pc' = "load"
    /\ UNCHANGED <<heap, mapping_ref, inferred, html, src, n_inputs, flags, initial_input>>
    /\ UNCHANGED <<extractVars, llmVars>>

\* the loop ends: "Display Results"
Display ==
    /\ app_pc = "load"
    /\ done_inputs = n_inputs
    /\ app_pc' = "display"
    /\ UNCHANGED <<heap, mapping_ref, inferred, html, src, effective_log, results,
                   n_inputs, done_inputs, flags, initial_input>>
    /\ UNCHANGED <<extractVars, llmVars>>

NextApp ==
    \/ LoadInput
    \/ InferSelectors
    \/ Extract
    \/ Display

SpecApp == InitApp /\ [][NextApp]_vars

SuggestionsOn == flags.use_llm_inference /\ flags.GEMINI_API_KEY # ""

\* C3: in the effective map built with suggestions enabled, a field the caller
\* gave a non-empty selector keeps the caller's selector whatever was
\* suggested, and a field differs from the caller's only where the caller
\* left it empty and a selector was suggested.
C3_CallerSelectorWins ==
    (app_pc = "extract" /\ SuggestionsOn) =>
        \A key \in FieldSet :
            LET caller == GetSelector(heap["mapping_input"], key)
                effective == GetSelector(heap[mapping_ref], key)
            IN  /\ TruthySelector(caller) => effective = caller
                /\ effective # caller =>
                      /\ ~TruthySelector(caller)
                      /\ effective = GetSelector(inferred, key)

\* the caller gave a title selector, the suggestion names another title
\* selector and a price selector
C3_Witness ==
    /\ app_pc = "extract"
    /\ SuggestionsOn
    /\ heap["mapping_input"] = [title |-> ".product-title", price |-> "", availability |-> ""]
    /\ inferred = [title |-> "h1.t", price |-> ".p", availability |-> "#a"]
    /\ heap[mapping_ref] = [title |-> ".product-title", price |-> ".p", availability |-> "#a"]

\* C10: the caller's map is never mutated by the batch: it equals its initial
\* value in every state, and each document's effective map is a dict of its
\* own, the initial map merged with that document's own suggestion alone.
C10_CallerMapNeverMutated ==
    /\ heap["mapping_input"] = initial_input
    /\ app_pc = "extract" =>
          /\ mapping_ref # "mapping_input"
          /\ \A key \in FieldSet :
                heap[mapping_ref][key] =
                    IF initial_input[key] = "" /\ SuggestionsOn
                       /\ GetSelector(inferred, key) \notin {NoSelector, ""}
                    THEN inferred[key]
                    ELSE initial_input[key]

\* the first document got a price selector suggested, the second did not, and
\* its effective map has none
C10_Witness ==
    /\ app_pc = "extract"
    /\ Len(effective_log) = 1
    /\ effective_log[1]["price"] = ".p2"
    /\ inferred = <<>>
    /\ heap[mapping_ref]["price"] = ""
    /\ heap["mapping_input"]["price"] = ""

====
